---- MODULE Spec2Model ----
(***************************************************************************)
(* The Kafka -> Elasticsearch bridge of src/cdc_spike/                     *)
(* kafka_to_elasticsearch.py as a state machine: the Kafka logs and the   *)
(* consumer group's committed offsets, the Elasticsearch store, the       *)
(* module-level stats and the control position of main()/run().           *)
(***************************************************************************)
EXTENDS Integers, Sequences, FiniteSets, TLC

VARIABLES
    log,        \* topic name -> the records of its (single) partition
    committed,  \* topic name -> offset committed for group 'elasticsearch-indexer'
    position,   \* topic name -> the consumer's in-memory fetch position
    batch,      \* the records of the last poll, in processing order
    idx,        \* index into batch of the next record to process
    pc,         \* control position of the process
    running,    \* self.running
    stats,      \* the module-level stats dict
    es,         \* the documents of the store: <<index, id>> -> document
    closed,     \* number of consumer.close() calls made by this process
    calls,      \* history: sink calls issued while processing the current batch
    attempted,  \* history: offsets passed through process_event in the current batch
    ret,        \* history: outcome of the last process_event call
    now,        \* time.time(), as a logical clock: one tick per record processed
    restarts,   \* history: number of process restarts so far
    faultsLeft, \* environment: number of sink/broker failures still to come
    pass        \* history: bookkeeping of the first delivery of a batch

vars == <<log, committed, position, batch, idx, pc, running, stats, es, closed,
          calls, attempted, ret, now, restarts, faultsLeft, pass>>

----------------------------------------------------------------------------
(* Bounds of the model *)

MaxLog == 3
MaxApplyLog == 4
MaxRestarts == 1
MaxFaults == 1
MaxCalls == 2
MaxSkipLog == 3
MaxStopLog == 2
MaxEndLog == 2

(* max_records of consumer.poll *)
MaxRecords == 100

----------------------------------------------------------------------------
(* Data: JSON values as the deserializers of connect_kafka produce them *)

\* A scalar of a key mapping: a JSON number or a JSON string.
IntV(n) == [t |-> "int", n |-> n, s |-> ""]
StrV(s) == [t |-> "str", n |-> 0, s |-> s]

\* Python's str() of a scalar.
PyStr(v) == IF v.t = "int" THEN ToString(v.n) ELSE v.s

\* A message key: None, a JSON object (its fields in order), or a JSON number.
NoKey == [kind |-> "none", fields |-> <<>>, n |-> 0]
MapKey(fs) == [kind |-> "map", fields |-> fs, n |-> 0]
NumKey(n) == [kind |-> "num", fields |-> <<>>, n |-> n]
Field(f, v) == [f |-> f, v |-> v]

\* An image (before/after): None or a JSON object, a function field -> value.
NoImage == [present |-> FALSE, doc |-> <<>>]
Image(d) == [present |-> TRUE, doc |-> d]

\* A message value:
\*   "null"     None (a tombstone);
\*   "envelope" {"schema": ..., "payload": {"op": .., "before": .., "after": ..}};
\*   "flat"     {"op": .., "before": .., "after": .., "source": .., "ts_ms": ..};
\*   "num"      a JSON value that is not an object.
\* op "None" stands for a missing "op" entry.
NullValue == [kind |-> "null", op |-> "None", before |-> NoImage, after |-> NoImage]
EnvelopeOf(op, before, after) ==
    [kind |-> "envelope", op |-> op, before |-> before, after |-> after]
Envelope(op, after) == EnvelopeOf(op, NoImage, after)
Flat(op, after) == [kind |-> "flat", op |-> op, before |-> NoImage, after |-> after]
NumValue == [kind |-> "num", op |-> "None", before |-> NoImage, after |-> NoImage]

\* A topic name is held as the sequence of its dot-free segments, which is
\* what topic.split('.') returns: "cdc.public.users" is <<"cdc","public","users">>.
UsersTopic == <<"cdc", "public", "users">>
OrdersTopic == <<"cdc", "public", "orders">>
KAFKA_TOPICS == {UsersTopic, OrdersTopic}

----------------------------------------------------------------------------
(* The pure helpers of the bridge *)

ExtractTableNameFirst(topic) == topic[1]

\* extract_table_name: parts = topic.split('.'); parts[-1]
ExtractTableName(topic) == topic[Len(topic)]

RECURSIVE JoinValuesReversed(_)
JoinValuesReversed(fs) ==
    IF Len(fs) = 1 THEN PyStr(fs[1].v)
    ELSE JoinValuesReversed(Tail(fs)) \o "_" \o PyStr(fs[1].v)

RECURSIVE JoinValues(_)
JoinValues(fs) ==
    IF Len(fs) = 1 THEN PyStr(fs[1].v)
    ELSE PyStr(fs[1].v) \o "_" \o JoinValues(Tail(fs))

ExtractDocumentIdPerProcess(key) ==
    IF key.kind = "map" /\ key.fields # <<>>
    THEN [tag |-> "id", id |-> JoinValues(key.fields) \o "_" \o ToString(restarts)]
    ELSE [tag |-> "none", id |-> ""]

\* extract_document_id: [tag |-> "none"] for None, [tag |-> "id"] with the
\* string, [tag |-> "raise"] when len(key) or key.values() raises.
ExtractDocumentId(key) ==
    IF \/ key.kind = "none"
       \/ key.kind = "map" /\ key.fields = <<>>
       \/ key.kind = "num" /\ key.n = 0
    THEN [tag |-> "none", id |-> ""]
    ELSE IF key.kind = "num" THEN [tag |-> "raise", id |-> ""]
    ELSE IF Len(key.fields) = 1
    THEN [tag |-> "id", id |-> PyStr(key.fields[1].v)]
    ELSE [tag |-> "id", id |-> JoinValues(key.fields)]

\* `not doc_id`
NoDocId(d) == d.tag = "none" \/ (d.tag = "id" /\ d.id = "")

----------------------------------------------------------------------------
(* The store *)

Exists(store, k) == k \in DOMAIN store
Put(store, k, d) == [p \in DOMAIN store \cup {k} |-> IF p = k THEN d ELSE store[p]]
Remove(store, k) == [p \in DOMAIN store \ {k} |-> store[p]]

\* Elasticsearch's partial update: the fields of doc are merged into the
\* stored document.
Merge(d, a) == [f \in DOMAIN d \cup DOMAIN a |-> IF f \in DOMAIN a THEN a[f] ELSE d[f]]

EsIndexAutoId(store, k, d) ==
    Put(store, <<k[1], k[2] \o "_" \o ToString(Cardinality(DOMAIN store))>>, d)

\* es.index(index, id, document): the stored document is replaced.
EsIndex(store, k, d) == Put(store, k, d)

\* es.update(index, id, body={'doc': d, 'doc_as_upsert': True})
EsUpdate(store, k, d) ==
    IF Exists(store, k) THEN Put(store, k, Merge(store[k], d)) ELSE Put(store, k, d)

EsDeleteKeeps(store, k) == store

EsDeleteAll(store, k) == <<>>

\* es.delete(index, id), of a document that is there
EsDelete(store, k) == Remove(store, k)

EsExistsAlways(store, k) == TRUE

\* es.exists(index, id)
EsExists(store, k) == Exists(store, k)

----------------------------------------------------------------------------
(* Sink failures: `at` is the number of the sink call of one process_event
   that raises (0: none does); transient tells a connectivity failure from
   a rejected request. *)

NoFail == [at |-> 0, transient |-> FALSE]
Fails == {[at |-> a, transient |-> t] : a \in {1, 2}, t \in BOOLEAN}

Call(op, index, id, ok, transient) ==
    [op |-> op, index |-> index, id |-> id, ok |-> ok, transient |-> transient]

CountTwice(st, field) == [st EXCEPT ![field] = @ + 2]

Count(st, field) == [st EXCEPT ![field] = @ + 1]

Result(store, st, r, cs) == [es |-> store, stats |-> st, ret |-> r, calls |-> cs]

\* handle_create
HandleCreate(store, st, index_name, doc_id, data, f) ==
    IF f.at = 1 \/ ~data.present
    THEN Result(store, Count(st, "errors"), "False",
                <<Call("index", index_name, doc_id, FALSE, f.at = 1 /\ f.transient)>>)
    ELSE Result(EsIndex(store, <<index_name, doc_id>>, data.doc), Count(st, "creates"),
                "True", <<Call("index", index_name, doc_id, TRUE, FALSE)>>)

HandleUpdateRetries(store, st, index_name, doc_id, data, f) ==
    IF ~data.present
    THEN Result(store, Count(st, "errors"), "False",
                <<Call("update", index_name, doc_id, FALSE, FALSE)>>)
    ELSE Result(EsUpdate(store, <<index_name, doc_id>>, data.doc), Count(st, "updates"),
                "True",
                IF f.at = 1
                THEN <<Call("update", index_name, doc_id, FALSE, f.transient),
                       Call("update", index_name, doc_id, TRUE, FALSE)>>
                ELSE <<Call("update", index_name, doc_id, TRUE, FALSE)>>)

\* handle_update
HandleUpdate(store, st, index_name, doc_id, data, f) ==
    IF f.at = 1 \/ ~data.present
    THEN Result(store, Count(st, "errors"), "False",
                <<Call("update", index_name, doc_id, FALSE, f.at = 1 /\ f.transient)>>)
    ELSE Result(EsUpdate(store, <<index_name, doc_id>>, data.doc), Count(st, "updates"),
                "True", <<Call("update", index_name, doc_id, TRUE, FALSE)>>)

HandleDeleteCountsAlways(store, st, key, topic, is_tombstone, f) ==
    LET index_name == ExtractTableName(topic)
        d == ExtractDocumentId(key)
        k == <<index_name, d.id>>
        ex(ok) == Call("exists", index_name, d.id, ok, ~ok /\ f.at = 1 /\ f.transient)
        del(ok) == Call("delete", index_name, d.id, ok, ~ok /\ f.at = 2 /\ f.transient)
    IN  IF d.tag = "raise" THEN Result(store, st, "Raised", <<>>)
        ELSE IF NoDocId(d) THEN Result(store, st, "False", <<>>)
        ELSE IF f.at = 1 THEN Result(store, Count(st, "errors"), "False", <<ex(FALSE)>>)
        ELSE IF EsExists(store, k)
        THEN IF f.at = 2 \/ ~Exists(store, k)
             THEN Result(store, Count(st, "errors"), "False", <<ex(TRUE), del(FALSE)>>)
             ELSE Result(EsDelete(store, k), Count(st, "deletes"), "True",
                         <<ex(TRUE), del(TRUE)>>)
        ELSE Result(store, Count(st, "deletes"), "True", <<ex(TRUE)>>)

\* handle_delete
HandleDelete(store, st, key, topic, is_tombstone, f) ==
    LET index_name == ExtractTableName(topic)
        d == ExtractDocumentId(key)
        k == <<index_name, d.id>>
        ex(ok) == Call("exists", index_name, d.id, ok, ~ok /\ f.at = 1 /\ f.transient)
        del(ok) == Call("delete", index_name, d.id, ok, ~ok /\ f.at = 2 /\ f.transient)
    IN  IF d.tag = "raise" THEN Result(store, st, "Raised", <<>>)
        ELSE IF NoDocId(d) THEN Result(store, st, "False", <<>>)
        ELSE IF f.at = 1 THEN Result(store, Count(st, "errors"), "False", <<ex(FALSE)>>)
        ELSE IF EsExists(store, k)
        THEN IF f.at = 2 \/ ~Exists(store, k)
             THEN Result(store, Count(st, "errors"), "False", <<ex(TRUE), del(FALSE)>>)
             ELSE Result(EsDelete(store, k), Count(st, "deletes"), "True",
                         <<ex(TRUE), del(TRUE)>>)
        ELSE Result(store, IF is_tombstone THEN st ELSE Count(st, "deletes"), "True",
                    <<ex(TRUE)>>)

\* The payload process_event reads: value.get('payload', {}).
Payload(value) ==
    IF value.kind = "envelope"
    THEN [op |-> value.op, before |-> value.before, after |-> value.after]
    ELSE [op |-> "None", before |-> NoImage, after |-> NoImage]

\* process_event
ProcessEvent(store, st, key, value, topic, f) ==
    IF value.kind = "null" THEN HandleDelete(store, st, key, topic, TRUE, f)
    ELSE IF value.kind = "num" THEN Result(store, st, "Raised", <<>>)
    ELSE LET payload == Payload(value)
             op == payload.op
             after == payload.after
             index_name == ExtractTableName(topic)
             d == ExtractDocumentId(key)
             before == payload.before
         IN  IF d.tag = "raise" THEN Result(store, st, "Raised", <<>>)
             ELSE IF NoDocId(d) THEN Result(store, st, "False", <<>>)
             ELSE IF op \in {"c", "r"}
             THEN HandleCreate(store, st, index_name, d.id, after, f)
             ELSE IF op = "u"
             THEN HandleUpdate(store, st, index_name, d.id, after, f)
             ELSE IF op = "d"
             THEN HandleDelete(store, st, key, topic, FALSE, f)
             ELSE Result(store, st, "False", <<>>)

----------------------------------------------------------------------------
(* The messages the logs are drawn from *)

Msg(key, value) == [key |-> key, value |-> value]

UserKey == MapKey(<<Field("id", IntV(7))>>)
OrderKey == MapKey(<<Field("user_id", IntV(3)), Field("order_id", IntV(9))>>)

Alice == [id |-> 7, username |-> "alice"]
AliceMail == [id |-> 7, email |-> "alice@example.com"]
Bob == [id |-> 7, username |-> "bob", is_active |-> TRUE]
Order == [id |-> 9, user_id |-> 3, status |-> "shipped"]

UserCreate == Msg(UserKey, Envelope("c", Image(Alice)))
UserUpdate == Msg(UserKey, Envelope("u", Image(AliceMail)))
UserDelete == Msg(UserKey, Envelope("d", NoImage))
UserTombstone == Msg(UserKey, NullValue)
OrderUpdate == Msg(OrderKey, Envelope("u", Image(Order)))

LifecycleUsers == {UserCreate, UserUpdate, UserDelete, UserTombstone}
LifecycleOrders == {OrderUpdate}

UserSnapshot == Msg(UserKey, Envelope("r", Image(Alice)))
UserCreateFlat == Msg(UserKey, Flat("c", Image(Alice)))
FormatUsers == LifecycleUsers \cup {UserSnapshot, UserCreateFlat}

\* Keys, values and topics that process_event is called with directly.
NameKey == MapKey(<<Field("username", StrV("alice"))>>)
OrderKeySwapped == MapKey(<<Field("order_id", IntV(9)), Field("user_id", IntV(3))>>)
TripleKey == MapKey(<<Field("a", IntV(1)), Field("b", StrV("x")), Field("c", IntV(2))>>)
EmptyKey == MapKey(<<>>)
\* Two keys over the same text columns whose values differ.
SkuKeyWest == MapKey(<<Field("region", StrV("eu_west")), Field("sku", StrV("1"))>>)
SkuKeyEu == MapKey(<<Field("region", StrV("eu")), Field("sku", StrV("west_1"))>>)
PlainTopic == <<"orders">>

CallKeys == {UserKey, NameKey, OrderKey, OrderKeySwapped, TripleKey, NoKey, EmptyKey,
             SkuKeyWest, SkuKeyEu}
CallValues == {Envelope("c", Image(Alice)),
               Envelope("u", Image(AliceMail)),
               Envelope("d", NoImage),
               EnvelopeOf("d", Image(Alice), NoImage),
               EnvelopeOf("d", Image(Bob), Image(AliceMail)),
               NullValue}
CallTopics == {UsersTopic, OrdersTopic, PlainTopic}

\* Messages without a usable key, with an operation code the bridge does not
\* know ("t" is Debezium's truncate), with no operation code, with a value
\* that is not a JSON object, and with a key that is not a JSON object.
KeylessCreate == Msg(NoKey, Envelope("c", Image(Alice)))
EmptyKeyTombstone == Msg(EmptyKey, NullValue)
UnknownOp == Msg(UserKey, Envelope("t", NoImage))
MissingOp == Msg(UserKey, Envelope("None", Image(Alice)))
NotAnEnvelope == Msg(UserKey, NumValue)
NotAMapping == Msg(NumKey(7), Envelope("c", Image(Alice)))
SkipUsers == {UserCreate, KeylessCreate, EmptyKeyTombstone, UnknownOp, MissingOp,
              NotAnEnvelope, NotAMapping}

\* A record that is applied and one on which process_event raises.
EndUsers == {UserCreate, NotAnEnvelope}

SeqsUpTo(S, n) == UNION {[1..k -> S] : k \in 0..n}

\* The logs of the two topics, n records in all.
Logs(users, orders, n) ==
    UNION {{[t \in KAFKA_TOPICS |-> IF t = UsersTopic THEN u ELSE o] :
               o \in SeqsUpTo(orders, n - Len(u))} : u \in SeqsUpTo(users, n)}

EmptyStore == <<>>
BobStore == [k \in {<<"users", "7">>} |-> Bob]
Stores == {EmptyStore, BobStore}

----------------------------------------------------------------------------
(* The process *)

\* stats as the module sets it; last_event_time 0 stands for None.
InitStats == [creates |-> 0, updates |-> 0, deletes |-> 0, errors |-> 0,
              total |-> 0, last_event_time |-> 0]

NoPass == [phase |-> "none", es0 |-> <<>>, batch0 |-> <<>>]

\* No offset committed for the group yet.
NoOffset == -1

\* The state of a fresh process: module globals and __init__.
Fresh ==
    /\ position = [t \in KAFKA_TOPICS |-> 0]
    /\ batch = <<>>
    /\ idx = 0
    /\ pc = "main"
    /\ running = TRUE
    /\ stats = InitStats
    /\ closed = 0
    /\ calls = <<>>
    /\ attempted = <<>>
    /\ ret = "None"
    /\ now = 0

InitWith(users, orders, n, nfaults) ==
    /\ log \in Logs(users, orders, n)
    /\ committed = [t \in KAFKA_TOPICS |-> NoOffset]
    /\ es \in Stores
    /\ restarts = 0
    /\ faultsLeft = nfaults
    /\ pass = NoPass
    /\ Fresh

\* The change events of one user and one order; sink and broker may fail.
Init == InitWith(LifecycleUsers, LifecycleOrders, MaxLog, MaxFaults)

\* The same events; the process may be killed and started again.
InitCrash == InitWith(LifecycleUsers, LifecycleOrders, MaxLog, 0)

\* Events of every format, with sink and broker up.
InitApply == InitWith(FormatUsers, LifecycleOrders, MaxApplyLog, 0)

\* Events the bridge cannot apply among the others, with sink and broker up.
InitSkip == InitWith(SkipUsers, LifecycleOrders, MaxSkipLog, 0)

\* A short stream, with sink and broker up; signals may arrive.
InitStop == InitWith(LifecycleUsers, LifecycleOrders, MaxStopLog, 0)

\* A short stream with a record that raises; sink and broker may fail.
InitEnd == InitWith(EndUsers, LifecycleOrders, MaxEndLog, MaxFaults)

\* Whether one more failure may be injected.
MayFail == faultsLeft > 0

\* main: check_services()
CheckServices ==
    /\ pc = "main"
    /\ \/ pc' = "connect_es"
       \/ pc' = "exited"
    /\ UNCHANGED <<log, committed, position, batch, idx, running, stats, es, closed,
                   calls, attempted, ret, now, restarts, faultsLeft, pass>>

\* run: connect_elasticsearch()
ConnectElasticsearch ==
    /\ pc = "connect_es"
    /\ \/ pc' = "connect_kafka"
       \/ pc' = "exited"
    /\ UNCHANGED <<log, committed, position, batch, idx, running, stats, es, closed,
                   calls, attempted, ret, now, restarts, faultsLeft, pass>>

ResumeOffsetPastCommitted(t) == IF committed[t] = NoOffset THEN 0 ELSE committed[t] + 1

\* Where a new consumer of the group starts in topic t: the committed offset,
\* or the start of the log (auto_offset_reset='earliest') when there is none.
ResumeOffset(t) == IF committed[t] = NoOffset THEN 0 ELSE committed[t]

\* run: connect_kafka(), then the signal handlers are installed
ConnectKafka ==
    /\ pc = "connect_kafka"
    /\ \/ /\ pc' = "loop"
          /\ position' = [t \in KAFKA_TOPICS |-> ResumeOffset(t)]
       \/ /\ pc' = "exited"
          /\ UNCHANGED position
    /\ UNCHANGED <<log, committed, batch, idx, running, stats, es, closed,
                   calls, attempted, ret, now, restarts, faultsLeft, pass>>

LoopTestIgnoresFlag ==
    /\ pc = "loop"
    /\ pc' = "poll"
    /\ UNCHANGED <<log, committed, position, batch, idx, running, stats, es, closed,
                   calls, attempted, ret, now, restarts, faultsLeft, pass>>

\* run: while self.running
LoopTest ==
    /\ pc = "loop"
    /\ pc' = IF running THEN "poll" ELSE "finally"
    /\ UNCHANGED <<log, committed, position, batch, idx, running, stats, es, closed,
                   calls, attempted, ret, now, restarts, faultsLeft, pass>>

Record(t, o) == [topic |-> t, offset |-> o, key |-> log[t][o + 1].key,
                 value |-> log[t][o + 1].value]

\* The records poll returns for topic t when it takes n of them.
Chunk(t, n) == [i \in 1..n |-> Record(t, position[t] + i - 1)]

\* The records of topic t not fetched yet, max_records at most.
Available(t) ==
    IF Len(log[t]) - position[t] < MaxRecords THEN Len(log[t]) - position[t]
    ELSE MaxRecords

Other(t) == CHOOSE u \in KAFKA_TOPICS : u # t

PassAtPoll(b) ==
    IF b = <<>> THEN pass
    ELSE IF pass.phase = "none" THEN [phase |-> "first", es0 |-> es, batch0 |-> b]
    ELSE IF pass.phase = "crashed" /\ b = pass.batch0 THEN [pass EXCEPT !.phase = "second"]
    ELSE NoPass

PollCountsEmpty ==
    /\ pc = "poll"
    /\ \E first \in KAFKA_TOPICS :
       \E nf \in 0..Available(first), no \in 0..Available(Other(first)) :
          /\ nf + no <= MaxRecords
          /\ (nf = 0 \/ no = 0) => first = UsersTopic
          /\ LET n == [t \in KAFKA_TOPICS |-> IF t = first THEN nf ELSE no]
                 b == Chunk(first, nf) \o Chunk(Other(first), no)
             IN  /\ batch' = b
                 /\ position' = [t \in KAFKA_TOPICS |-> position[t] + n[t]]
                 /\ idx' = IF b = <<>> THEN idx ELSE 1
                 /\ pc' = IF b = <<>> THEN "loop" ELSE "process"
                 /\ calls' = IF b = <<>> THEN calls ELSE <<>>
                 /\ attempted' = IF b = <<>> THEN attempted ELSE <<>>
                 /\ pass' = PassAtPoll(b)
                 /\ stats' = IF b = <<>> /\ stats.errors = 0
                             THEN Count(stats, "errors") ELSE stats
    /\ UNCHANGED <<log, committed, running, es, closed, ret, now, restarts, faultsLeft>>

\* run: messages = self.consumer.poll(timeout_ms=1000, max_records=100),
\* and `if not messages: continue`
Poll ==
    /\ pc = "poll"
    /\ \E first \in KAFKA_TOPICS :
       \E nf \in 0..Available(first), no \in 0..Available(Other(first)) :
          /\ nf + no <= MaxRecords
          /\ (nf = 0 \/ no = 0) => first = UsersTopic
          /\ LET n == [t \in KAFKA_TOPICS |-> IF t = first THEN nf ELSE no]
                 b == Chunk(first, nf) \o Chunk(Other(first), no)
             IN  /\ batch' = b
                 /\ position' = [t \in KAFKA_TOPICS |-> position[t] + n[t]]
                 /\ idx' = IF b = <<>> THEN idx ELSE 1
                 /\ pc' = IF b = <<>> THEN "loop" ELSE "process"
                 /\ calls' = IF b = <<>> THEN calls ELSE <<>>
                 /\ attempted' = IF b = <<>> THEN attempted ELSE <<>>
                 /\ pass' = PassAtPoll(b)
    /\ UNCHANGED <<log, committed, running, stats, es, closed, ret, now, restarts, faultsLeft>>

\* run: poll raises; the except clause ends the loop
PollRaises ==
    /\ pc = "poll"
    /\ MayFail
    /\ faultsLeft' = faultsLeft - 1
    /\ pc' = "finally"
    /\ UNCHANGED <<log, committed, position, batch, idx, running, stats, es, closed,
                   calls, attempted, ret, now, restarts, pass>>

\* for message in records: the next record
NextIndex(i) == i + 1

BatchDoneEarly(i, b) == i > 1

\* Both for loops are exhausted.
BatchDone(i, b) == i > Len(b)

\* A sink call of the event raised.
Failed(r) == \E j \in 1..Len(r.calls) : ~r.calls[j].ok

CurrentReversed(b, i) == b[Len(b) + 1 - i]

\* for message in records: the record of this iteration
Current(b, i) == b[i]

Tag(m, cs) == [j \in 1..Len(cs) |-> [topic |-> m.topic, offset |-> m.offset, call |-> cs[j]]]

\* run: one iteration of `for message in records`
ProcessMessage ==
    /\ pc = "process"
    /\ idx <= Len(batch)
    /\ \E f \in {NoFail} \cup (IF MayFail THEN Fails ELSE {}) :
        LET m == Current(batch, idx)
            r == ProcessEvent(es, stats, m.key, m.value, m.topic, f)
        IN  /\ f.at # 0 => Failed(r)
            /\ faultsLeft' = faultsLeft - (IF f.at = 0 THEN 0 ELSE 1)
            /\ now' = now + 1
            /\ es' = r.es
            /\ ret' = r.ret
            /\ calls' = calls \o Tag(m, r.calls)
            /\ attempted' = Append(attempted, <<m.topic, m.offset>>)
            /\ pass' = IF f.at # 0 /\ pass.phase = "second" THEN NoPass ELSE pass
            /\ IF r.ret = "Raised"
               THEN /\ stats' = r.stats
                    /\ idx' = idx
                    /\ pc' = "finally"
               ELSE /\ stats' = [r.stats EXCEPT !.total = @ + 1, !.last_event_time = now']
                    /\ idx' = NextIndex(idx)
                    /\ pc' = IF BatchDone(idx', batch) THEN "commit" ELSE "process"
    /\ UNCHANGED <<log, committed, position, batch, running, closed, restarts>>

CommitUsersOnly ==
    /\ pc = "commit"
    /\ committed' = [committed EXCEPT ![UsersTopic] = position[UsersTopic]]
    /\ pc' = "loop"
    /\ pass' = NoPass
    /\ UNCHANGED <<log, position, batch, idx, running, stats, es, closed,
                   calls, attempted, ret, now, restarts, faultsLeft>>

CommitSkipped ==
    /\ pc = "commit"
    /\ pc' = "loop"
    /\ pass' = NoPass
    /\ UNCHANGED <<log, committed, position, batch, idx, running, stats, es, closed,
                   calls, attempted, ret, now, restarts, faultsLeft>>

\* run: self.consumer.commit()
Commit ==
    /\ pc = "commit"
    /\ committed' = position
    /\ pc' = "loop"
    /\ pass' = NoPass
    /\ UNCHANGED <<log, position, batch, idx, running, stats, es, closed,
                   calls, attempted, ret, now, restarts, faultsLeft>>

\* run: commit raises; the except clause ends the loop
CommitRaises ==
    /\ pc = "commit"
    /\ MayFail
    /\ faultsLeft' = faultsLeft - 1
    /\ pc' = "finally"
    /\ pass' = NoPass
    /\ UNCHANGED <<log, committed, position, batch, idx, running, stats, es, closed,
                   calls, attempted, ret, now, restarts>>

FinallyCommits ==
    /\ pc = "finally"
    /\ closed' = closed + 1
    /\ committed' = position
    /\ pc' = "exited"
    /\ UNCHANGED <<log, position, batch, idx, running, stats, es,
                   calls, attempted, ret, now, restarts, faultsLeft, pass>>

\* run: finally: self.consumer.close(); run and main return
Finally ==
    /\ pc = "finally"
    /\ closed' = closed + 1
    /\ pc' = "exited"
    /\ UNCHANGED <<log, committed, position, batch, idx, running, stats, es,
                   calls, attempted, ret, now, restarts, faultsLeft, pass>>

\* The exit status of the process once it has ended, -1 before: main()
\* returns on every path and nothing calls sys.exit, so the status is 0.
ExitStatus == IF pc = "exited" THEN 0 ELSE -1

InLoop == pc \in {"loop", "poll", "process", "commit"}

SignalCountsError ==
    /\ InLoop
    /\ running
    /\ running' = FALSE
    /\ stats' = Count(stats, "errors")
    /\ UNCHANGED <<log, committed, position, batch, idx, pc, es, closed,
                   calls, attempted, ret, now, restarts, faultsLeft, pass>>

SignalToggles ==
    /\ InLoop
    /\ running' = ~running
    /\ UNCHANGED <<log, committed, position, batch, idx, pc, stats, es, closed,
                   calls, attempted, ret, now, restarts, faultsLeft, pass>>

SignalPreempts ==
    /\ InLoop
    /\ running
    /\ running' = FALSE
    /\ pc' = "finally"
    /\ UNCHANGED <<log, committed, position, batch, idx, stats, es, closed,
                   calls, attempted, ret, now, restarts, faultsLeft, pass>>

\* signal_handler, on SIGINT or SIGTERM
Signal ==
    /\ InLoop
    /\ running
    /\ running' = FALSE
    /\ UNCHANGED <<log, committed, position, batch, idx, pc, stats, es, closed,
                   calls, attempted, ret, now, restarts, faultsLeft, pass>>

\* The memory of a process that is gone: what a new process starts with.
Lost ==
    /\ position' = [t \in KAFKA_TOPICS |-> 0]
    /\ batch' = <<>>
    /\ idx' = 0
    /\ running' = TRUE
    /\ stats' = InitStats
    /\ closed' = 0
    /\ calls' = <<>>
    /\ attempted' = <<>>
    /\ ret' = "None"
    /\ now' = 0

\* The process is killed (SIGKILL, power loss): everything in memory is lost.
Kill ==
    /\ InLoop
    /\ restarts < MaxRestarts
    /\ pc' = "dead"
    /\ pass' = IF pass.phase = "first" /\ pc \in {"process", "commit"}
               THEN [pass EXCEPT !.phase = "crashed"] ELSE NoPass
    /\ Lost
    /\ UNCHANGED <<log, committed, es, restarts, faultsLeft>>

\* A supervisor starts the program again.
Restart ==
    /\ pc \in {"dead", "exited"}
    /\ restarts < MaxRestarts
    /\ restarts' = restarts + 1
    /\ pc' = "main"
    /\ Lost
    /\ pass' = IF pc = "dead" THEN pass ELSE NoPass
    /\ UNCHANGED <<log, committed, es, faultsLeft>>

\* A bridge whose methods are called directly, connected to a sink that is up.
InitCall ==
    /\ log = [t \in KAFKA_TOPICS |-> <<>>]
    /\ committed = [t \in KAFKA_TOPICS |-> NoOffset]
    /\ es \in Stores
    /\ restarts = 0
    /\ faultsLeft = 0
    /\ pass = NoPass
    /\ position = [t \in KAFKA_TOPICS |-> 0]
    /\ batch = <<>>
    /\ idx = 0
    /\ pc = "call"
    /\ running = TRUE
    /\ stats = InitStats
    /\ closed = 0
    /\ calls = <<>>
    /\ attempted = <<>>
    /\ ret = "None"
    /\ now = 0

\* One call process_event(key, value, topic); batch holds its arguments.
CallProcessEvent ==
    /\ pc = "call"
    /\ now < MaxCalls
    /\ \E key \in CallKeys, value \in CallValues, topic \in CallTopics :
        LET m == [topic |-> topic, offset |-> now, key |-> key, value |-> value]
            r == ProcessEvent(es, stats, key, value, topic, NoFail)
        IN  /\ batch' = <<m>>
            /\ es' = r.es
            /\ stats' = r.stats
            /\ ret' = r.ret
            /\ calls' = Tag(m, r.calls)
            /\ now' = now + 1
    /\ UNCHANGED <<log, committed, position, idx, pc, running, closed, attempted,
                   restarts, faultsLeft, pass>>

\* The program with sink and broker up and no signal.
NextApply ==
    \/ CheckServices
    \/ ConnectElasticsearch
    \/ ConnectKafka
    \/ LoopTest
    \/ Poll
    \/ ProcessMessage
    \/ Commit

\* The program, its signals and the failures of sink and broker.
Next ==
    \/ NextApply
    \/ PollRaises
    \/ CommitRaises
    \/ Finally
    \/ Signal

\* The program, its signals, kills and restarts.
NextCrash ==
    \/ NextApply
    \/ Finally
    \/ Signal
    \/ Kill
    \/ Restart

\* The program with sink and broker up; a record may end the loop.
NextSkip ==
    \/ NextApply
    \/ Finally

\* The program with sink and broker up, and its signals.
NextStop ==
    \/ NextApply
    \/ Finally
    \/ Signal

\* Direct calls of process_event.
NextCall ==
    \/ CallProcessEvent

Spec == Init /\ [][Next]_vars
SpecCrash == InitCrash /\ [][NextCrash]_vars
SpecApply == InitApply /\ [][NextApply]_vars
SpecSkip == InitSkip /\ [][NextSkip]_vars
SpecStop == InitStop /\ [][NextStop]_vars
\* The interpreter goes on with the statement it stands at: every poll returns
\* within its timeout, every sink call and every commit returns.
Progress ==
    /\ WF_vars(LoopTest)
    /\ WF_vars(Poll)
    /\ WF_vars(ProcessMessage)
    /\ WF_vars(Commit)
    /\ WF_vars(Finally)

SpecStopFair == InitStop /\ [][NextStop]_vars /\ Progress
SpecEnd == InitEnd /\ [][Next]_vars
SpecCall == InitCall /\ [][NextCall]_vars

----------------------------------------------------------------------------
(* What the claims speak of *)

\* The offset of the first record of topic t that the checkpoint does not cover.
Checkpoint(t) == IF committed[t] < 0 THEN 0 ELSE committed[t]

Offsets(b) == [i \in 1..Len(b) |-> <<b[i].topic, b[i].offset>>]

\* The step is one iteration of the record loop.
ProcessStep == Len(attempted') = Len(attempted) + 1

\* The step commits the checkpoint.
CommitStep == committed' # committed

\* A record has just been processed: it is batch[idx - 1] and ret is its outcome.
JustProcessed == pc \in {"process", "commit"} /\ idx > 1 /\ Len(attempted) = idx - 1

LastRecord == batch[idx - 1]

DocKey(m) == <<ExtractTableName(m.topic), ExtractDocumentId(m.key).id>>

IsOp(m, ops) == m.value.kind = "envelope" /\ m.value.op \in ops

\* The sink calls of the current batch that raised.
FailedCalls == {j \in 1..Len(calls) : ~calls[j].call.ok}

\* Applying a batch once, with the sink up.
RECURSIVE ApplyBatch(_, _)
ApplyBatch(store, b) ==
    IF b = <<>> THEN store
    ELSE ApplyBatch(ProcessEvent(store, InitStats, b[1].key, b[1].value, b[1].topic,
                                 NoFail).es, Tail(b))

----------------------------------------------------------------------------
(* C1: in every cycle the checkpoint is committed only after every record of
   the batch has been passed through process_event; a record whose
   processing fails (process_event returns False; a failed sink call is
   counted in errors) is followed by the next record of the batch, not by
   the commit. *)
C1_CommitAfterWholeBatch ==
    [][/\ CommitStep => /\ pc = "commit"
                        /\ batch # <<>>
                        /\ attempted = Offsets(batch)
                        /\ committed' = position
       /\ (ProcessStep /\ ret' = "False" /\ idx < Len(batch)) =>
              /\ pc' = "process"
              /\ idx' = idx + 1
              /\ committed' = committed
       /\ (ProcessStep /\ Len(calls') > Len(calls) /\ ~calls'[Len(calls')].call.ok) =>
              /\ ret' = "False"
              /\ stats'.errors = stats.errors + 1]_vars

\* A batch of several records, an early one of which failed, is committed.
C1_Witness ==
    /\ pc = "loop"
    /\ Len(batch) >= 2
    /\ attempted = Offsets(batch)
    /\ \A t \in KAFKA_TOPICS : committed[t] = position[t]
    /\ \E j \in FailedCalls : calls[j].offset = batch[1].offset /\ calls[j].topic = batch[1].topic

(* C2: a kill leaves the committed checkpoint as it is; the records of a batch
   in flight are the records from the checkpoint on, none left out; and the
   consumer of the restarted process stands at or before every record of the
   batch that was in flight, so that they are delivered again. *)
C2_InFlightFromCheckpoint ==
    /\ pc \in {"process", "commit"} =>
          \A t \in KAFKA_TOPICS :
             LET mine == {i \in 1..Len(batch) : batch[i].topic = t}
             IN  /\ {batch[i].offset : i \in mine} = Checkpoint(t)..(position[t] - 1)
                 /\ \A i, j \in mine : i < j => batch[i].offset < batch[j].offset
    /\ pass.phase = "crashed" =>
          \A i \in 1..Len(pass.batch0) :
             /\ committed[pass.batch0[i].topic] <= pass.batch0[i].offset
             /\ pc \in {"loop", "poll"} =>
                   position[pass.batch0[i].topic] <= pass.batch0[i].offset

C2_KillRedelivers ==
    [][/\ pc' = "dead" => committed' = committed
       /\ C2_InFlightFromCheckpoint']_vars

\* After a kill in the second batch, the restarted process has that batch again.
C2_Witness ==
    /\ restarts = 1
    /\ pass.phase = "second"
    /\ pc = "process"
    /\ committed[UsersTopic] = 1
    /\ batch[1].offset = 1
    /\ Len(batch) = 2

(* C3: when a sink call fails with a transient connectivity failure while a
   batch is processed, the checkpoint of that batch is not committed. *)
C3_NoCommitAfterTransientFailure ==
    ~ /\ pc = "loop"
      /\ batch # <<>>
      /\ attempted = Offsets(batch)
      /\ \A t \in KAFKA_TOPICS : committed[t] = position[t]
      /\ \E j \in FailedCalls : calls[j].call.transient

(* C4: a batch that was being applied when the process was killed before the
   commit, and that is applied again by the restarted process, leaves the
   store as applying it once to the store of the first delivery does. *)
C4_ReplayEqualsOnce ==
    (pass.phase = "second" /\ pc = "commit") => es = ApplyBatch(pass.es0, pass.batch0)

\* The replay of a batch of several records that changed the store.
C4_Witness ==
    /\ pass.phase = "second"
    /\ pc = "commit"
    /\ Len(batch) >= 2
    /\ es # pass.es0
    /\ \E i \in 1..Len(batch) : IsOp(batch[i], {"c"})

(* C5: the records of one partition are applied in arrival order: the records
   processed so far are the first records of the batch in its order, offsets
   of one topic increase, the sink calls follow the same order, and every
   record of the batch comes after the committed ones. *)
C5_ArrivalOrder ==
    /\ pc \in {"process", "commit"} =>
          /\ attempted = SubSeq(Offsets(batch), 1, Len(attempted))
          /\ \A i \in 1..Len(attempted) : attempted[i][2] >= Checkpoint(attempted[i][1])
    /\ \A i, j \in 1..Len(attempted) :
          (i < j /\ attempted[i][1] = attempted[j][1]) => attempted[i][2] < attempted[j][2]
    /\ \A i, j \in 1..Len(calls) :
          (i < j /\ calls[i].topic = calls[j].topic) => calls[i].offset <= calls[j].offset

\* Create, Update, Delete of one key in one batch, applied as index, update, delete.
C5_Witness ==
    /\ pc = "commit"
    /\ Len(batch) = 3
    /\ IsOp(batch[1], {"c"}) /\ IsOp(batch[2], {"u"}) /\ IsOp(batch[3], {"d"})
    /\ [j \in 1..Len(calls) |-> calls[j].call.op] = <<"index", "update", "exists", "delete">>
    /\ FailedCalls = {}

\* The number of records of topic t processed so far by this process.
Processed(t) ==
    IF pc \in {"process", "commit"}
    THEN position[t] - Cardinality({i \in idx..Len(batch) : batch[i].topic = t})
    ELSE position[t]

(* C6: once Create, Update, Delete of a key have been processed in this order,
   and also once the Tombstone that follows them has, the collection holds no
   document of that key, whatever it held before. *)
C6_LifecycleEndsDeleted ==
    LET p == Processed(UsersTopic)
        l == log[UsersTopic]
    IN  /\ pc \in {"loop", "poll", "process", "commit"}
        /\ \/ p >= 3 /\ SubSeq(l, p - 2, p) = <<UserCreate, UserUpdate, UserDelete>>
           \/ p >= 4 /\ SubSeq(l, p - 3, p) =
                           <<UserCreate, UserUpdate, UserDelete, UserTombstone>>
        => ~Exists(es, <<"users", "7">>)

\* The four events processed, on a store that held a document of the key.
C6_Witness ==
    /\ pc = "commit"
    /\ log[UsersTopic] = <<UserCreate, UserUpdate, UserDelete, UserTombstone>>
    /\ Processed(UsersTopic) = 4
    /\ stats.deletes = 1
    /\ stats.creates = 1

(* C7: after a successful Update with after-image A the document of its id
   equals A, whatever was stored before. *)
C7_UpdateReplacesDocument ==
    (JustProcessed /\ ret = "True" /\ IsOp(LastRecord, {"u"})) =>
        /\ Exists(es, DocKey(LastRecord))
        /\ es[DocKey(LastRecord)] = LastRecord.value.after.doc

(* C8: after a Create, Snapshot or Update has been applied, applying the same
   event once more leaves every document as it is. *)
C8_IdempotentApply ==
    (JustProcessed /\ ret = "True" /\ IsOp(LastRecord, {"c", "r", "u"})) =>
        LET m == LastRecord
            again == ProcessEvent(es, stats, m.key, m.value, m.topic, NoFail)
        IN  /\ again.ret = "True"
            /\ again.es = es

\* An Update applied to a stored document with other fields.
C8_Witness ==
    /\ JustProcessed
    /\ ret = "True"
    /\ IsOp(LastRecord, {"u"})
    /\ es[DocKey(LastRecord)] # LastRecord.value.after.doc
    /\ idx > 2
    /\ batch[idx - 2].key = LastRecord.key
    /\ batch[idx - 2].value = LastRecord.value
    /\ batch[idx - 2].topic = LastRecord.topic

(* C9: a Delete event or a Tombstone whose document is not in the collection
   returns True, raises nothing, leaves errors and the store as they are. *)
C9_DeleteOfAbsent ==
    [][(/\ ProcessStep
        /\ (IsOp(batch[idx], {"d"}) \/ batch[idx].value.kind = "null")
        /\ ExtractDocumentId(batch[idx].key).tag = "id"
        /\ ~Exists(es, DocKey(batch[idx])))
       => /\ ret' = "True"
          /\ pc' # "finally"
          /\ stats'.errors = stats.errors
          /\ es' = es]_vars

\* A Tombstone processed after the Delete that removed the document.
C9_Witness ==
    /\ JustProcessed
    /\ idx > 2
    /\ LastRecord.value.kind = "null"
    /\ IsOp(batch[idx - 2], {"d"})
    /\ ret = "True"
    /\ stats.deletes = 1
    /\ ~Exists(es, DocKey(LastRecord))

(* C10: a Create or Snapshot event in the envelope format with op, before and
   after directly under the value writes its after-image as the document of
   its key. *)
C10_FlatCreateUpserts ==
    (/\ JustProcessed
     /\ LastRecord.value.kind = "flat"
     /\ LastRecord.value.op \in {"c", "r"}) =>
        /\ Exists(es, DocKey(LastRecord))
        /\ es[DocKey(LastRecord)] = LastRecord.value.after.doc

\* A direct call of process_event has been made; Arg holds its arguments.
Called == pc = "call" /\ now > 0

Arg == batch[1]

\* The step is a direct call of process_event.
CallStep == pc = "call" /\ now' = now + 1

IsDelete(m) == m.value.kind = "null" \/ IsOp(m, {"d"})

\* The document a key on a topic stands for.
Target(m) == <<m.topic[Len(m.topic)], ExtractDocumentId(m.key).id>>

(* C11: a Tombstone and a Delete event with key K on topic T act on the one
   document resolve(K) of the collection of T: every sink call they make is an
   exists or a delete of that document, and the store afterwards is the store
   before without that document, whatever before- and after-image the event
   carries. *)
C11_DeleteTargetsKey ==
    [][(CallStep /\ IsDelete(Arg') /\ ExtractDocumentId(Arg'.key).tag = "id") =>
          /\ ret' = "True"
          /\ es' = [k \in DOMAIN es \ {Target(Arg')} |-> es[k]]
          /\ Len(calls') >= 1
          /\ \A j \in 1..Len(calls') :
                /\ calls'[j].call.op \in {"exists", "delete"}
                /\ <<calls'[j].call.index, calls'[j].call.id>> = Target(Arg')]_vars

\* A Delete event carrying images of another document removes the document of
\* its key and leaves the other document of the store.
C11_Witness ==
    /\ Called
    /\ Arg.value = EnvelopeOf("d", Image(Bob), Image(AliceMail))
    /\ Arg.key = OrderKey
    /\ Arg.topic = OrdersTopic
    /\ [j \in 1..Len(calls) |-> calls[j].call.op] = <<"exists", "delete">>
    /\ calls[2].call.id = "3_9"
    /\ DOMAIN es = {<<"users", "7">>}

\* The document ids the keys of the direct calls are to yield.
ExpectedId(key) ==
    IF key = UserKey THEN "7"
    ELSE IF key = NameKey THEN "alice"
    ELSE IF key = OrderKey THEN "3_9"
    ELSE IF key = OrderKeySwapped THEN "9_3"
    ELSE IF key = TripleKey THEN "1_x_2"
    ELSE IF key = SkuKeyWest THEN "eu_west_1"
    ELSE IF key = SkuKeyEu THEN "eu_west_1"
    ELSE ""

(* C12: a key with one field yields the string form of its value ({id: 7}
   yields "7"), a key with several fields the string forms of its values in
   field order joined with "_" ({user_id: 3, order_id: 9} yields "3_9"); every
   sink call of an event is made with that id. *)
C12_DocumentIdOfKey ==
    (Called /\ Arg.key.kind = "map" /\ Arg.key.fields # <<>>) =>
        /\ ExtractDocumentId(Arg.key) = [tag |-> "id", id |-> ExpectedId(Arg.key)]
        /\ Len(Arg.key.fields) = 1 =>
               ExtractDocumentId(Arg.key).id = PyStr(Arg.key.fields[1].v)
        /\ ret = "True"
        /\ calls # <<>>
        /\ \A j \in 1..Len(calls) : calls[j].call.id = ExpectedId(Arg.key)

\* The update of the order with key {user_id: 3, order_id: 9}, after a create
\* with key {username: "alice"}.
C12_Witness ==
    /\ Called
    /\ Arg.key = OrderKey
    /\ IsOp(Arg, {"u"})
    /\ Arg.topic = OrdersTopic
    /\ calls[1].call = Call("update", "orders", "3_9", TRUE, FALSE)
    /\ Exists(es, <<"orders", "3_9">>)
    /\ Exists(es, <<"users", "alice">>)

\* The key of the record a sink call of the current batch was made for.
KeyOf(c) == log[c.topic][c.offset + 1].key

\* The documents of the collection of topic t.
DocsOf(t) == {k \in DOMAIN es : k[1] = t[Len(t)]}

(* C13: the document id depends on the key alone: sink calls made for records
   with the same key carry the same id, whichever operation the records
   carry, and the events of the one source record of a topic never leave more
   than one document in its collection, before and after a restart. *)
C13_IdOfKeyAlone ==
    /\ \A i, j \in 1..Len(calls) :
          (calls[i].topic = calls[j].topic /\ KeyOf(calls[i]) = KeyOf(calls[j])) =>
              calls[i].call.id = calls[j].call.id
    /\ \A t \in KAFKA_TOPICS :
          /\ \A i, j \in 1..Len(log[t]) : log[t][i].key = log[t][j].key
          /\ Cardinality(DocsOf(t)) <= 1
          /\ \A k \in DocsOf(t) : \A j \in 1..Len(calls) :
                calls[j].topic = t => calls[j].call.id = k[2]

\* A restarted process updates and deletes the document that the process
\* before it created.
C13_Witness ==
    /\ restarts = 1
    /\ pc = "process"
    /\ committed[UsersTopic] = 1
    /\ IsOp(log[UsersTopic][1], {"c"})
    /\ Len(batch) = 2
    /\ idx = 2
    /\ IsOp(batch[1], {"u"}) /\ IsOp(batch[2], {"d"})
    /\ calls[1].call = Call("update", "users", "7", TRUE, FALSE)
    /\ DOMAIN es = {<<"users", "7">>}

\* The name of a topic: its segments joined with dots.
RECURSIVE TopicName(_)
TopicName(t) ==
    IF Len(t) = 1 THEN t[1] ELSE t[1] \o "." \o TopicName(Tail(t))

(* C14: the collection of an event is the last dot-delimited segment of its
   topic: cdc.public.users gives users, cdc.public.orders gives orders, and a
   topic without a dot gives its whole name; every sink call of the event is
   made on that collection. *)
C14_CollectionOfTopic ==
    Called =>
        /\ TopicName(Arg.topic) = "cdc.public.users" => ExtractTableName(Arg.topic) = "users"
        /\ TopicName(Arg.topic) = "cdc.public.orders" => ExtractTableName(Arg.topic) = "orders"
        /\ Len(Arg.topic) = 1 => ExtractTableName(Arg.topic) = TopicName(Arg.topic)
        /\ \A j \in 1..Len(calls) : calls[j].call.index = Arg.topic[Len(Arg.topic)]

\* A create on the topic named orders writes to the collection orders.
C14_Witness ==
    /\ Called
    /\ TopicName(Arg.topic) = "orders"
    /\ Arg.key = UserKey
    /\ IsOp(Arg, {"c"})
    /\ calls[1].call = Call("index", "orders", "7", TRUE, FALSE)
    /\ DOMAIN es = {<<"orders", "7">>, <<"users", "7">>}

\* The record of this iteration of the record loop.
ThisRecord == batch[idx]

Keyless(m) == m.key = NoKey \/ m.key = EmptyKey

(* C15: a record whose key is absent or empty, with a value or without, makes
   no sink call, adds one to the error counter, and is followed by the next
   record of the batch or by the commit. *)
C15_KeylessCountedAndSkipped ==
    [][(ProcessStep /\ Keyless(ThisRecord)) =>
          /\ calls' = calls
          /\ es' = es
          /\ stats'.errors = stats.errors + 1
          /\ idx' = idx + 1
          /\ pc' = IF idx < Len(batch) THEN "process" ELSE "commit"]_vars

(* C16: a record whose value carries an operation code other than c, u, d, r,
   or none, makes no sink call, adds one to the error counter, and is
   followed by the next record of the batch or by the commit. *)
C16_UnknownOpCountedAndSkipped ==
    [][(/\ ProcessStep
        /\ ThisRecord.value.kind = "envelope"
        /\ ThisRecord.value.op \notin {"c", "u", "d", "r"}
        /\ ExtractDocumentId(ThisRecord.key).tag = "id") =>
          /\ calls' = calls
          /\ es' = es
          /\ stats'.errors = stats.errors + 1
          /\ idx' = idx + 1
          /\ pc' = IF idx < Len(batch) THEN "process" ELSE "commit"]_vars

Malformed(m) == m.value.kind = "num" \/ m.key.kind = "num"

(* C17: a record whose value is not a JSON object, or whose key is not one, is
   followed by the next record of the batch or by the commit, and the loop
   goes on. *)
C17_MalformedIsPerMessage ==
    [][(ProcessStep /\ Malformed(ThisRecord)) =>
          /\ idx' = idx + 1
          /\ pc' = IF idx < Len(batch) THEN "process" ELSE "commit"]_vars

\* The sink calls the step makes.
NewCalls == SubSeq(calls', Len(calls) + 1, Len(calls'))

\* The step makes a sink call that is rejected (a failure that is not one of
\* connectivity).
RejectedStep ==
    /\ ProcessStep
    /\ \E j \in 1..Len(NewCalls) : ~NewCalls[j].call.ok /\ ~NewCalls[j].call.transient

(* C18: a record whose sink call is rejected adds exactly one to the error
   counter and changes no document; it is followed by the next record of the
   batch or by the commit, and the commit that follows the last record sets
   the checkpoint to the end of the batch unless the broker fails. *)
C18_RejectedCountedOnce ==
    [][/\ RejectedStep =>
             /\ stats'.errors = stats.errors + 1
             /\ stats'.creates = stats.creates
             /\ stats'.updates = stats.updates
             /\ stats'.deletes = stats.deletes
             /\ es' = es
             /\ ret' = "False"
             /\ idx' = idx + 1
             /\ pc' = IF idx < Len(batch) THEN "process" ELSE "commit"
       /\ (pc = "commit" /\ pc' # "commit" /\ faultsLeft' = faultsLeft) =>
             /\ pc' = "loop"
             /\ attempted = Offsets(batch)
             /\ committed' = position]_vars

\* A batch whose first record was rejected by the sink and whose later record
\* was applied is committed.
C18_Witness ==
    /\ pc = "loop"
    /\ Len(batch) >= 2
    /\ attempted = Offsets(batch)
    /\ \A t \in KAFKA_TOPICS : committed[t] = position[t]
    /\ stats.errors = 1
    /\ stats.total = Len(batch)
    /\ Len(calls) >= 2
    /\ ~calls[1].call.ok /\ ~calls[1].call.transient
    /\ calls[1].offset = batch[1].offset /\ calls[1].topic = batch[1].topic
    /\ calls[Len(calls)].call.ok
    /\ calls[Len(calls)].call.op \in {"index", "update"}
    /\ <<calls[Len(calls)].call.index, calls[Len(calls)].call.id>> \in DOMAIN es

\* The checkpoint covers everything the consumer has fetched.
AllCommitted == \A t \in KAFKA_TOPICS : Checkpoint(t) = position[t]

(* C19: a signal changes nothing but the running flag; with the flag down, a
   batch in flight is processed record by record to its end and committed
   (unless the broker fails), the loop is left only from its test between two
   batches, with everything fetched committed, and nothing is polled after
   the batch in flight. *)
C19_GracefulShutdown ==
    [][/\ (running /\ ~running') =>
             UNCHANGED <<log, committed, position, batch, idx, pc, stats, es, closed,
                         calls, attempted, ret>>
       /\ (~running /\ pc = "process") =>
             \/ UNCHANGED vars
             \/ /\ ProcessStep
                /\ idx' = idx + 1
                /\ pc' = IF idx < Len(batch) THEN "process" ELSE "commit"
                /\ UNCHANGED <<batch, position, committed>>
       /\ (~running /\ pc = "commit") =>
             \/ UNCHANGED vars
             \/ /\ pc' = "loop"
                /\ attempted = Offsets(batch)
                /\ committed' = position
                /\ UNCHANGED <<batch, position>>
             \/ /\ pc' = "finally"
                /\ faultsLeft' < faultsLeft
       /\ (~running /\ pc = "loop") =>
             /\ pc' \in {"loop", "finally"}
             /\ AllCommitted
             /\ UNCHANGED <<batch, position, committed, es>>
       /\ (pc # "finally" /\ pc' = "finally" /\ faultsLeft' = faultsLeft) =>
             /\ pc = "loop"
             /\ ~running
             /\ AllCommitted]_vars

\* The loop has ended after a signal, the last batch of three records
\* processed to its end and committed.
C19_Witness ==
    /\ pc = "finally"
    /\ ~running
    /\ faultsLeft = MaxFaults
    /\ Len(batch) = 3
    /\ attempted = Offsets(batch)
    /\ \A t \in KAFKA_TOPICS : committed[t] = position[t]
    /\ stats.total = 3

\* The process has ended without having had a consumer to close: one of
\* check_services, connect_elasticsearch, connect_kafka failed.
StartupFailed == pc = "exited" /\ closed = 0

(* C20: when Elasticsearch or Kafka cannot be reached at startup, nothing is
   polled, applied or committed, and the process ends with an exit status
   other than 0. *)
C20_StartupFailureExitsNonZero ==
    StartupFailed =>
        /\ batch = <<>>
        /\ calls = <<>>
        /\ stats = InitStats
        /\ es \in Stores
        /\ \A t \in KAFKA_TOPICS : committed[t] = NoOffset
        /\ ExitStatus # 0

\* The loop has been left: Stopped.
Stopped == pc \in {"finally", "exited"}

(* C21: the running flag, once cleared, stays cleared, and once the loop has
   been left nothing is polled, applied or committed any more by that
   process. *)
C21_RunStateOneWay ==
    [][/\ ~running => ~running'
       /\ Stopped =>
             /\ Stopped'
             /\ UNCHANGED <<batch, position, committed, es, stats, calls, attempted, running>>]_vars

\* The process has ended after a signal, with a record of the stream left
\* unfetched.
C21_Witness ==
    /\ pc = "exited"
    /\ closed = 1
    /\ ~running
    /\ stats.total = 1
    /\ position[UsersTopic] = 1
    /\ Len(log[UsersTopic]) = 2
    /\ committed[UsersTopic] = 1

(* C22: once a signal has cleared the running flag, the process reaches the
   end of run() with the consumer closed, given that every poll, sink call
   and commit returns; polls may return records or none. *)
C22_SignalLeadsToStopped ==
    ~running ~> (pc = "exited" /\ closed = 1)

\* The process has ended after a signal that arrived while the second of two
\* batches of one record was being handled.
C22_Witness ==
    /\ pc = "exited"
    /\ closed = 1
    /\ ~running
    /\ stats.total = 2
    /\ Len(batch) = 1
    /\ batch[1].offset = 1
    /\ AllCommitted

\* The step is a poll that returns records.
PollStep == pc = "poll" /\ pc' = "process"

(* C23: a poll that returns a batch is made only when every record of the
   batch before it has been processed and its commit has been made, so the
   records fetched and not committed are never more than the records of one
   batch. *)
C23_OneBatchInFlight ==
    [][/\ PollStep =>
             /\ AllCommitted
             /\ batch # <<>> => attempted = Offsets(batch)
             /\ \A i \in 1..Len(batch') :
                   batch'[i].offset >= Checkpoint(batch'[i].topic)
       /\ (pc' \in {"process", "commit"}) =>
             \A t \in KAFKA_TOPICS : \A o \in Checkpoint(t)'..(position'[t] - 1) :
                \E i \in 1..Len(batch') : batch'[i].topic = t /\ batch'[i].offset = o]_vars

\* The second batch is polled after the first, of two records, was committed.
C23_Witness ==
    /\ pc = "process"
    /\ idx = 1
    /\ Len(batch) = 1
    /\ batch[1].offset = 2
    /\ committed[batch[1].topic] = 2
    /\ position[batch[1].topic] = 3
    /\ stats.total = 2

\* The number of records of topic t in the last batch polled.
InBatch(t) == Cardinality({i \in 1..Len(batch) : batch[i].topic = t})

\* The checkpoint covers no record of the last batch polled.
NoneCommitted == \A t \in KAFKA_TOPICS : Checkpoint(t) = position[t] - InBatch(t)

(* C24: the checkpoint covers every record of the last batch polled or none
   of them, for all topics of the batch alike: none while the batch is
   processed, all once its commit has been made, and none still when the
   commit failed. *)
C24_CheckpointAtBatchBoundary ==
    /\ pc \in {"main", "connect_es", "connect_kafka"} =>
          \A t \in KAFKA_TOPICS : committed[t] = NoOffset
    /\ pc \in {"process", "commit"} => NoneCommitted
    /\ pc \in {"loop", "poll"} => AllCommitted
    /\ pc \in {"finally", "exited"} => (AllCommitted \/ NoneCommitted)

\* A batch with records of both topics has been committed.
C24_Witness ==
    /\ pc = "loop"
    /\ Len(batch) = 3
    /\ InBatch(UsersTopic) = 2
    /\ InBatch(OrdersTopic) = 1
    /\ committed[UsersTopic] = 2
    /\ committed[OrdersTopic] = 1
    /\ ~NoneCommitted

\* The step is a poll that returns no record.
EmptyPollStep == pc = "poll" /\ pc' = "loop"

(* C25: a poll that returns no record makes no sink call and no commit, and
   leaves the counters, the store, the checkpoint, the consumer's position
   and the running flag as they are; the loop goes back to its test. *)
C25_EmptyPollIsNoOp ==
    [][EmptyPollStep =>
          /\ batch' = <<>>
          /\ UNCHANGED <<stats, es, committed, position, running, calls, attempted,
                         idx, ret, closed, log>>]_vars

\* The loop stands at its test after an empty poll that followed a committed
\* batch, with a record of the stream not fetched yet.
C25_Witness ==
    /\ pc = "loop"
    /\ running
    /\ batch = <<>>
    /\ stats.total = 1
    /\ stats.errors = 0
    /\ AllCommitted
    /\ position[UsersTopic] + position[OrdersTopic] = 1
    /\ Len(log[UsersTopic]) + Len(log[OrdersTopic]) = 2

(* C26: a record whose processing fails or is skipped (process_event does not
   return True) leaves creates, updates, deletes and last_event_time as they
   are. *)
C26_FailedLeavesCountersAndTime ==
    [][(ProcessStep /\ ret' # "True") =>
          /\ stats'.creates = stats.creates
          /\ stats'.updates = stats.updates
          /\ stats'.deletes = stats.deletes
          /\ stats'.last_event_time = stats.last_event_time]_vars

Mutating(c) == c.call.op \in {"index", "update", "delete"}

SameRecord(c, d) == c.topic = d.topic /\ c.offset = d.offset

(* C27: for one delivery of a record at most one index, update or delete call
   is made, also when it fails; no call follows a failed call of the same
   record, and no record is passed through process_event twice by the
   process that polled it. *)
C27_NoRetryInLoop ==
    /\ \A i, j \in 1..Len(calls) :
          (i < j /\ SameRecord(calls[i], calls[j])) =>
              /\ ~(Mutating(calls[i]) /\ Mutating(calls[j]))
              /\ calls[i].call.ok
    /\ \A i, j \in 1..Len(attempted) : i # j => attempted[i] # attempted[j]
    /\ \A j \in 1..Len(calls) : <<calls[j].topic, calls[j].offset>> \in
                                     {attempted[i] : i \in 1..Len(attempted)}

\* A delete call has failed and the batch goes to its commit with no other
\* call for the record.
C27_Witness ==
    /\ pc = "commit"
    /\ Len(batch) = 1
    /\ IsOp(batch[1], {"d"})
    /\ [j \in 1..Len(calls) |-> calls[j].call.op] = <<"exists", "delete">>
    /\ ~calls[2].call.ok
    /\ stats.errors = 1
    /\ Exists(es, DocKey(batch[1]))

\* The events of two calls belong to different source records.
OtherRecord(m, n) == m.key # n.key \/ m.topic[Len(m.topic)] # n.topic[Len(n.topic)]

(* C28: an event changes at most the document of its own key: the document
   that the call before wrote for its key is still there, unchanged, after a
   call for an event of another key or another collection. *)
C28_OtherKeysUntouched ==
    [][(/\ CallStep
        /\ Called
        /\ ret = "True"
        /\ IsOp(Arg, {"c", "u"})
        /\ OtherRecord(Arg, Arg')) =>
          /\ Exists(es', Target(Arg))
          /\ es'[Target(Arg)] = es[Target(Arg)]]_vars

\* The number of records this process has passed through process_event.
Taken == Processed(UsersTopic) + Processed(OrdersTopic)

Outcomes == stats.creates + stats.updates + stats.deletes + stats.errors

(* C29: between two records total is the number of records taken from the
   polled batches so far, whether they were applied, failed or were skipped,
   and creates + updates + deletes + errors is at most total. *)
C29_CountersConsistent ==
    InLoop =>
        /\ stats.total = Taken
        /\ Outcomes <= stats.total
        /\ pc \in {"process", "commit"} => Len(attempted) = idx - 1

\* Three records taken: one applied, one failed at the sink, one Tombstone
\* that found no document.
C29_Witness ==
    /\ pc = "commit"
    /\ stats.total = 3
    /\ Outcomes = 2
    /\ stats.errors = 1
    /\ batch[idx - 1].value.kind = "null"

\* 1 when the document of record m is in the store, 0 when it is not.
Stored(m) == IF Exists(es, DocKey(m)) THEN 1 ELSE 0

(* C30: a Delete event that succeeds adds exactly one to deletes, whether its
   document was there or not; a Tombstone adds one when its document was
   there and nothing when it was not; so a Tombstone that directly follows
   the Delete event of its key adds nothing, and the two add exactly one. *)
C30_DeleteCounting ==
    [][(ProcessStep /\ ExtractDocumentId(ThisRecord.key).tag = "id") =>
          /\ IsOp(ThisRecord, {"d"}) =>
                /\ ret' = "True"
                /\ stats'.deletes = stats.deletes + 1
          /\ ThisRecord.value.kind = "null" =>
                /\ ret' = "True"
                /\ stats'.deletes = stats.deletes + Stored(ThisRecord)
          /\ (/\ idx > 1
              /\ ThisRecord.value.kind = "null"
              /\ IsOp(batch[idx - 1], {"d"})
              /\ DocKey(batch[idx - 1]) = DocKey(ThisRecord)) =>
                stats'.deletes = stats.deletes]_vars

\* A Delete event for a document that was not there, then its Tombstone:
\* deletes is 1 and no delete call was made.
C30_Witness ==
    /\ pc = "commit"
    /\ Len(batch) = 2
    /\ IsOp(batch[1], {"d"})
    /\ batch[2].value.kind = "null"
    /\ stats.deletes = 1
    /\ stats.total = 2
    /\ [j \in 1..Len(calls) |-> calls[j].call.op] = <<"exists", "exists">>

\* The step leaves the loop.
LoopEnds == pc # "finally" /\ pc' = "finally"

(* C31: the step that ends the loop, be it the loop test after a signal or an
   exception raised by poll, by the processing of a record or by commit,
   commits nothing; an exception leaves the batch in flight uncommitted and
   its remaining records unprocessed; the consumer is then closed, once, and
   nothing is polled, applied or committed afterwards. *)
C31_LoopEndClosesOnce ==
    [][/\ LoopEnds =>
             /\ InLoop
             /\ closed = 0
             /\ UNCHANGED <<committed, closed, position, batch>>
             /\ pc = "loop" => (~running /\ AllCommitted)
             /\ pc = "poll" => (faultsLeft' < faultsLeft /\ AllCommitted)
             /\ pc = "process" => /\ ret' = "Raised"
                                  /\ NoneCommitted
                                  /\ UNCHANGED <<idx, es, stats>>
             /\ pc = "commit" => (faultsLeft' < faultsLeft /\ NoneCommitted)
       /\ pc = "finally" =>
             \/ UNCHANGED vars
             \/ /\ pc' = "exited"
                /\ closed = 0
                /\ closed' = 1
                /\ UNCHANGED <<committed, position, batch, idx, es, stats, calls, attempted>>
       /\ pc = "exited" => UNCHANGED vars]_vars

\* The process has ended after the second record of a batch raised: the
\* first record is applied, the batch is not committed, the consumer is
\* closed.
C31_Witness ==
    /\ pc = "exited"
    /\ closed = 1
    /\ ret = "Raised"
    /\ Len(batch) = 2
    /\ idx = 2
    /\ stats.total = 1
    /\ stats.creates = 1
    /\ Exists(es, <<"users", "7">>)
    /\ \A t \in KAFKA_TOPICS : committed[t] = NoOffset

\* The step is the signal handler's.
SignalStep == running /\ ~running'

(* C32: the signal handler writes the running flag and nothing else: the
   counters, the store, the checkpoint, the consumer's position, the batch in
   flight and the place the loop stands at stay as they are; and the
   counters are written by the processing of a record only, never by a poll,
   a commit, the loop test or the end of the loop. *)
C32_SignalWritesFlagOnly ==
    [][/\ SignalStep =>
             /\ InLoop
             /\ UNCHANGED <<stats, es, committed, position, batch, idx, pc, calls,
                            attempted, ret, closed, now, log>>
       /\ stats' # stats =>
             /\ pc = "process"
             /\ ProcessStep
             /\ running' = running
             /\ stats'.total = stats.total + 1]_vars

\* A signal has arrived while the second record of a batch was to be
\* processed; the first is counted and applied, nothing is committed.
C32_Witness ==
    /\ ~running
    /\ pc = "process"
    /\ idx = 2
    /\ Len(batch) = 2
    /\ stats.total = 1
    /\ Len(calls) = 1
    /\ NoneCommitted
    /\ ~AllCommitted

====
